---- MODULE Spec2Model ----
(***************************************************************************)
(* ChatSession (src/src/methods/chat-session.ts): the promise chain        *)
(* _sendPromise that sequences getHistory, sendMessage and                 *)
(* sendMessageStream, and the admission of exchanges into _history.        *)
(*                                                                         *)
(* The JavaScript run-time is modelled as far as the class relies on it:   *)
(* promises (state, value, reaction list), a FIFO microtask queue, `await` *)
(* and `.then/.catch` registering reactions, and the resolution of a       *)
(* promise with another promise taking one extra job.  What the caller     *)
(* and the remote service do (invoking an operation, settling a remote     *)
(* call) may happen between any two microtasks.                            *)
(***************************************************************************)
EXTENDS Integers, Sequences, FiniteSets, TLC

\* Number of calls on the session a run can hold.
MaxCalls == 4

\* Number of operations the caller invokes when every operation, input and
\* outcome is allowed (Spec).
MaxOps == 3

Calls == 1..MaxCalls

\* ---------------------------------------------------------------- values
SILENT_ERROR == <<"SILENT_ERROR", 0>>
Undefined == <<"undefined", 0>>

\* What a remote call can deliver as its response.
Responses == {"valid", "blocked", "blockedQuiet", "malformed"}

UserTurn(c) == <<"user", c>>
ModelTurn(c) == <<"model", c>>
RoleTurn(c, role) == <<role, c>>

\* The role field of a response's first candidate content: absent, or a string.
NoRole == <<>>

\* ---------------------------------------------------------------- promises
\* The promises one call creates: its own (the async function's), the chain
\* steps it attaches, the remote call's, and a stream's final response.
Slots == {"call", "s1", "s2", "s3", "s4", "s5", "remote", "response"}
P0 == <<0, "resolved">>
Pids == (Calls \X Slots) \cup {P0}

VARIABLES
    history,      \* this._history
    sendPromise,  \* this._sendPromise (a promise id)
    pst,          \* promise id -> "pending" | "fulfilled" | "rejected"
    pval,         \* promise id -> value or rejection reason
    reactions,    \* promise id -> jobs waiting for the promise to settle
    mq,           \* the microtask queue
    kind,         \* call -> "none" | "get" | "unary" | "stream"
    pc,           \* call -> "idle" | "await1" | "await2" | "done"
    tailAtInvoke, \* call -> this._sendPromise when the call was invoked
    goodInput,    \* call -> whether formatNewContent accepts the request
    req,          \* call -> contents of its generateContentRequest (<<>>: not built)
    dispatched,   \* call -> whether its remote call has been started
    finalResult,  \* call -> the local finalResult of sendMessage
    gotHistory,   \* call -> what getHistory returned
    diags,        \* console.warn / console.error output
    nextCall,     \* the next call the caller invokes
    settledAtInvoke, \* call -> the calls already settled when it was invoked
    requestOptions,  \* this._requestOptions
    callOptions,     \* call -> the requestOptions argument of the call
    sentOptions,     \* call -> its chatSessionRequestOptions
    attachedAfter    \* call -> the tail its chain steps were attached to

vars == <<history, sendPromise, pst, pval, reactions, mq, kind, pc, tailAtInvoke,
          goodInput, req, dispatched, finalResult, gotHistory, diags,
          nextCall, settledAtInvoke, requestOptions, callOptions,
          sentOptions, attachedAfter>>

\* An options object: the fields it has, each with the value it was given.
NoOptions == [f \in {} |-> 0]

Job(k, q, p) == [kind |-> k, q |-> q, p |-> p]

\* The promise state as one value, so that a handler's several promise
\* operations compose.
Heap == [st |-> pst, val |-> pval, rx |-> reactions, mq |-> mq]
Popped == [Heap EXCEPT !.mq = Tail(mq)]

SetHeap(h) ==
    /\ pst' = h.st
    /\ pval' = h.val
    /\ reactions' = h.rx
    /\ mq' = h.mq

\* p.then(...) / await p: the job runs in a later microtask, queued now when
\* p is settled and when p settles otherwise.
PromiseThen(h, p, job) ==
    IF h.st[p] = "pending"
    THEN [h EXCEPT !.rx[p] = Append(@, job)]
    ELSE [h EXCEPT !.mq = Append(@, job)]

\* Fulfil or reject q: its reactions are queued in registration order.
Settle(h, q, s, v) ==
    [st |-> [h.st EXCEPT ![q] = s],
     val |-> [h.val EXCEPT ![q] = v],
     rx |-> [h.rx EXCEPT ![q] = <<>>],
     mq |-> h.mq \o h.rx[q]]

\* Resolve q with the promise r: a job that will call r.then(...).
ResolveWith(h, q, r) == [h EXCEPT !.mq = Append(@, Job("thenable", q, r))]

\* A session constructed with these default request options.
InitWith(defaults) ==
    /\ history = <<>>
    /\ sendPromise = P0
    /\ pst = [p \in Pids |-> IF p = P0 THEN "fulfilled" ELSE "pending"]
    /\ pval = [p \in Pids |-> Undefined]
    /\ reactions = [p \in Pids |-> <<>>]
    /\ mq = <<>>
    /\ kind = [c \in Calls |-> "none"]
    /\ pc = [c \in Calls |-> "idle"]
    /\ tailAtInvoke = [c \in Calls |-> P0]
    /\ goodInput = [c \in Calls |-> TRUE]
    /\ req = [c \in Calls |-> <<>>]
    /\ dispatched = [c \in Calls |-> FALSE]
    /\ finalResult = [c \in Calls |-> Undefined]
    /\ gotHistory = [c \in Calls |-> <<>>]
    /\ diags = {}
    /\ nextCall = 1
    /\ settledAtInvoke = [c \in Calls |-> {}]
    /\ requestOptions = defaults
    /\ callOptions = [c \in Calls |-> NoOptions]
    /\ sentOptions = [c \in Calls |-> NoOptions]
    /\ attachedAfter = [c \in Calls |-> P0]

\* private _requestOptions: RequestOptions = {}
Init == InitWith(NoOptions)

\* ------------------------------------------------------------ invocation
\* The caller's side of an invocation: calls are numbered in invocation
\* order, and the calls settled so far are remembered.
Settled(c) == pst[<<c, "call">>] # "pending"

InvokedWith(c, k, ok, o) ==
    /\ nextCall = c
    /\ nextCall' = c + 1
    /\ kind' = [kind EXCEPT ![c] = k]
    /\ goodInput' = [goodInput EXCEPT ![c] = ok]
    /\ callOptions' = [callOptions EXCEPT ![c] = o]
    /\ pc' = [pc EXCEPT ![c] = "await1"]
    /\ tailAtInvoke' = [tailAtInvoke EXCEPT ![c] = sendPromise]
    /\ settledAtInvoke' = [settledAtInvoke EXCEPT ![c] = {a \in Calls : Settled(a)}]

\* requestOptions: SingleRequestOptions = {}
Invoked(c, k, ok) == InvokedWith(c, k, ok, NoOptions)

\* An entry that awaits a fresh resolved promise instead of the chain tail.
EntryAwaitResolved(tail) == P0

\* The promise an operation awaits on entry: `await this._sendPromise`.
EntryAwait(tail) == tail

\* getHistory(), up to its await.
getHistory(c) ==
    /\ Invoked(c, "get", TRUE)
    /\ SetHeap(PromiseThen(Heap, EntryAwait(sendPromise),
                           Job("resume", <<c, "call">>, EntryAwait(sendPromise))))
    /\ UNCHANGED <<history, sendPromise, req, dispatched, finalResult,
                   gotHistory, diags, requestOptions, sentOptions,
                   attachedAfter>>

\* sendMessage(request), up to its first await.
sendMessage(c, ok) ==
    /\ Invoked(c, "unary", ok)
    /\ SetHeap(PromiseThen(Heap, EntryAwait(sendPromise),
                           Job("resume", <<c, "call">>, EntryAwait(sendPromise))))
    /\ UNCHANGED <<history, sendPromise, req, dispatched, finalResult,
                   gotHistory, diags, requestOptions, sentOptions,
                   attachedAfter>>

\* sendMessageStream(request), up to its await.
sendMessageStream(c, ok) ==
    /\ Invoked(c, "stream", ok)
    /\ SetHeap(PromiseThen(Heap, EntryAwait(sendPromise),
                           Job("resume", <<c, "call">>, EntryAwait(sendPromise))))
    /\ UNCHANGED <<history, sendPromise, req, dispatched, finalResult,
                   gotHistory, diags, requestOptions, sentOptions,
                   attachedAfter>>

\* ------------------------------------------------------------ microtasks
Running(k) == mq # <<>> /\ Head(mq).kind = k

\* getHistory after its await: return this._history, or rethrow.
getHistoryResume(c) ==
    /\ Running("resume") /\ Head(mq).q = <<c, "call">>
    /\ kind[c] = "get" /\ pc[c] = "await1"
    /\ LET p == Head(mq).p IN
       IF pst[p] = "fulfilled"
       THEN /\ SetHeap(Settle(Popped, <<c, "call">>, "fulfilled", <<"history", c>>))
            /\ gotHistory' = [gotHistory EXCEPT ![c] = history]
       ELSE /\ SetHeap(Settle(Popped, <<c, "call">>, "rejected", pval[p]))
            /\ UNCHANGED gotHistory
    /\ pc' = [pc EXCEPT ![c] = "done"]
    /\ UNCHANGED <<history, sendPromise, kind, tailAtInvoke, goodInput, req,
                   dispatched, finalResult, diags, nextCall, settledAtInvoke,
                   requestOptions, callOptions, sentOptions,
                   attachedAfter>>

\* A merge in which the session's value wins.
MergeDefaultsWin(defaults, perCall) ==
    [f \in DOMAIN defaults \cup DOMAIN perCall |->
        IF f \in DOMAIN defaults THEN defaults[f] ELSE perCall[f]]

\* { ...this._requestOptions, ...requestOptions }
MergeOptions(defaults, perCall) ==
    [f \in DOMAIN defaults \cup DOMAIN perCall |->
        IF f \in DOMAIN perCall THEN perCall[f] ELSE defaults[f]]

\* contents: [...this._history, newContent]
RequestContents(h, c) == Append(h, UserTurn(c))

\* sendMessage from its first await to its second: format the request,
\* build the generation request, attach three steps to the chain.
sendMessageAttach(c) ==
    /\ Running("resume") /\ Head(mq).q = <<c, "call">>
    /\ kind[c] = "unary" /\ pc[c] = "await1"
    /\ LET p == Head(mq).p IN
       IF pst[p] = "rejected"
       THEN /\ SetHeap(Settle(Popped, <<c, "call">>, "rejected", pval[p]))
            /\ pc' = [pc EXCEPT ![c] = "done"]
            /\ UNCHANGED <<req, sendPromise, sentOptions, attachedAfter>>
       ELSE IF ~goodInput[c]
       THEN /\ SetHeap(Settle(Popped, <<c, "call">>, "rejected", <<"format", c>>))
            /\ pc' = [pc EXCEPT ![c] = "done"]
            /\ UNCHANGED <<req, sendPromise, sentOptions, attachedAfter>>
       ELSE /\ req' = [req EXCEPT ![c] = RequestContents(history, c)]
            /\ sentOptions' = [sentOptions EXCEPT
                                 ![c] = MergeOptions(requestOptions, callOptions[c])]
            /\ attachedAfter' = [attachedAfter EXCEPT ![c] = sendPromise]
            /\ LET h1 == PromiseThen(Popped, sendPromise,
                                     Job("react", <<c, "s1">>, sendPromise))
                   h2 == PromiseThen(h1, <<c, "s1">>, Job("react", <<c, "s2">>, <<c, "s1">>))
                   h3 == PromiseThen(h2, <<c, "s2">>, Job("react", <<c, "s3">>, <<c, "s2">>))
                   h4 == PromiseThen(h3, <<c, "s3">>, Job("resume", <<c, "call">>, <<c, "s3">>))
               IN SetHeap(h4)
            /\ sendPromise' = <<c, "s3">>
            /\ pc' = [pc EXCEPT ![c] = "await2"]
    /\ UNCHANGED <<history, kind, tailAtInvoke, goodInput, dispatched,
                   finalResult, gotHistory, diags, nextCall, settledAtInvoke,
                   requestOptions, callOptions>>

\* sendMessage after `await this._sendPromise` (line 135): return finalResult.
sendMessageReturn(c) ==
    /\ Running("resume") /\ Head(mq).q = <<c, "call">>
    /\ kind[c] = "unary" /\ pc[c] = "await2"
    /\ LET p == Head(mq).p IN
       IF pst[p] = "fulfilled"
       THEN SetHeap(Settle(Popped, <<c, "call">>, "fulfilled", finalResult[c]))
       ELSE SetHeap(Settle(Popped, <<c, "call">>, "rejected", pval[p]))
    /\ pc' = [pc EXCEPT ![c] = "done"]
    /\ UNCHANGED <<history, sendPromise, kind, tailAtInvoke, goodInput, req,
                   dispatched, finalResult, gotHistory, diags, nextCall,
                   settledAtInvoke,
                   requestOptions, callOptions, sentOptions,
                   attachedAfter>>

\* ------------------------------------------------------- admission step
ResponseOf(v) == v[1]

\* isValidResponse / formatBlockErrorMessage failing on the response.
AdmissionThrows(resp) == resp = "malformed"

ContentRole(v) == v[3]

\* A model turn that always gets the role "model".
UnaryRoleAlwaysModel(content) == "model"

\* { parts: [], role: "model", ...content }: a role field of content wins.
UnaryRole(content) == IF content = NoRole THEN "model" ELSE content[1]

\* if (!responseContent.role) responseContent.role = "model"
StreamRole(content) ==
    IF content = NoRole \/ content[1] = "" THEN "model" ELSE content[1]

\* An admission that overwrites History with the new exchange.
AdmitReplacesHistory(h, c, resp, role) ==
    IF resp = "valid"
    THEN <<UserTurn(c), RoleTurn(c, role)>>
    ELSE h

\* An admission that records the prompt of a response that is not valid.
AdmitPromptOfBlocked(h, c, resp, role) ==
    IF resp = "valid"
    THEN Append(Append(h, UserTurn(c)), RoleTurn(c, role))
    ELSE Append(h, UserTurn(c))

\* if (isValidResponse(response)) { push(newContent); push(responseContent) }
Admit(h, c, resp, role) ==
    IF resp = "valid"
    THEN Append(Append(h, UserTurn(c)), RoleTurn(c, role))
    ELSE h

\* A handler that forgets to keep the result.
FinalResultDropped(result) == Undefined

\* finalResult = result
FinalResult(result) == result

\* else { if (blockErrorMessage) console.warn(...) }
BlockWarning(c, resp) ==
    IF resp = "blocked"
    THEN {[level |-> "warn", of |-> c, e |-> Undefined]}
    ELSE {}

\* ------------------------------------------------ sendMessage's chain
\* .then(() => generateContent(...)): the remote call starts here.
UnaryGenerate(c) ==
    /\ Running("react") /\ Head(mq).q = <<c, "s1">> /\ kind[c] = "unary"
    /\ LET p == Head(mq).p IN
       IF pst[p] = "fulfilled"
       THEN /\ dispatched' = [dispatched EXCEPT ![c] = TRUE]
            /\ SetHeap(ResolveWith(Popped, <<c, "s1">>, <<c, "remote">>))
       ELSE /\ SetHeap(Settle(Popped, <<c, "s1">>, "rejected", pval[p]))
            /\ UNCHANGED dispatched
    /\ UNCHANGED <<history, sendPromise, kind, pc, tailAtInvoke, goodInput, req,
                   finalResult, gotHistory, diags, nextCall, settledAtInvoke,
                   requestOptions, callOptions, sentOptions,
                   attachedAfter>>

\* .then((result) => { admission; finalResult = result })
UnaryAdmit(c) ==
    /\ Running("react") /\ Head(mq).q = <<c, "s2">> /\ kind[c] = "unary"
    /\ LET p == Head(mq).p IN
       IF pst[p] = "rejected"
       THEN /\ SetHeap(Settle(Popped, <<c, "s2">>, "rejected", pval[p]))
            /\ UNCHANGED <<history, diags, finalResult>>
       ELSE IF AdmissionThrows(ResponseOf(pval[p]))
       THEN /\ SetHeap(Settle(Popped, <<c, "s2">>, "rejected", <<"admit", c>>))
            /\ UNCHANGED <<history, diags, finalResult>>
       ELSE /\ history' = Admit(history, c, ResponseOf(pval[p]),
                                  UnaryRole(ContentRole(pval[p])))
            /\ diags' = diags \cup BlockWarning(c, ResponseOf(pval[p]))
            /\ finalResult' = [finalResult EXCEPT ![c] = FinalResult(pval[p])]
            /\ SetHeap(Settle(Popped, <<c, "s2">>, "fulfilled", Undefined))
    /\ UNCHANGED <<sendPromise, kind, pc, tailAtInvoke, goodInput, req,
                   dispatched, gotHistory, nextCall, settledAtInvoke,
                   requestOptions, callOptions, sentOptions,
                   attachedAfter>>

\* A catch handler that leaves the rejected tail in place.
CatchTailKept(tail) == tail

\* this._sendPromise = Promise.resolve() in sendMessage's catch handler.
CatchTail(tail) == P0

\* .catch((e) => { this._sendPromise = Promise.resolve(); throw e; })
UnaryCatch(c) ==
    /\ Running("react") /\ Head(mq).q = <<c, "s3">> /\ kind[c] = "unary"
    /\ LET p == Head(mq).p IN
       IF pst[p] = "fulfilled"
       THEN /\ SetHeap(Settle(Popped, <<c, "s3">>, "fulfilled", pval[p]))
            /\ UNCHANGED sendPromise
       ELSE /\ sendPromise' = CatchTail(sendPromise)
            /\ SetHeap(Settle(Popped, <<c, "s3">>, "rejected", pval[p]))
    /\ UNCHANGED <<history, kind, pc, tailAtInvoke, goodInput, req, dispatched,
                   finalResult, gotHistory, diags, nextCall, settledAtInvoke,
                   requestOptions, callOptions, sentOptions,
                   attachedAfter>>

\* ------------------------------------------ sendMessageStream's chain
\* sendMessageStream after its await: format, build the request, start the
\* remote call, attach five steps to the chain, return streamPromise.
sendMessageStreamAttach(c) ==
    /\ Running("resume") /\ Head(mq).q = <<c, "call">>
    /\ kind[c] = "stream" /\ pc[c] = "await1"
    /\ LET p == Head(mq).p IN
       IF pst[p] = "rejected"
       THEN /\ SetHeap(Settle(Popped, <<c, "call">>, "rejected", pval[p]))
            /\ UNCHANGED <<req, sendPromise, dispatched, sentOptions, attachedAfter>>
       ELSE IF ~goodInput[c]
       THEN /\ SetHeap(Settle(Popped, <<c, "call">>, "rejected", <<"format", c>>))
            /\ UNCHANGED <<req, sendPromise, dispatched, sentOptions, attachedAfter>>
       ELSE /\ req' = [req EXCEPT ![c] = RequestContents(history, c)]
            /\ sentOptions' = [sentOptions EXCEPT
                                 ![c] = MergeOptions(requestOptions, callOptions[c])]
            /\ attachedAfter' = [attachedAfter EXCEPT ![c] = sendPromise]
            /\ dispatched' = [dispatched EXCEPT ![c] = TRUE]
            /\ LET h1 == PromiseThen(Popped, sendPromise,
                                     Job("react", <<c, "s1">>, sendPromise))
                   h2 == PromiseThen(h1, <<c, "s1">>, Job("react", <<c, "s2">>, <<c, "s1">>))
                   h3 == PromiseThen(h2, <<c, "s2">>, Job("react", <<c, "s3">>, <<c, "s2">>))
                   h4 == PromiseThen(h3, <<c, "s3">>, Job("react", <<c, "s4">>, <<c, "s3">>))
                   h5 == PromiseThen(h4, <<c, "s4">>, Job("react", <<c, "s5">>, <<c, "s4">>))
               IN SetHeap(ResolveWith(h5, <<c, "call">>, <<c, "remote">>))
            /\ sendPromise' = <<c, "s5">>
    /\ pc' = [pc EXCEPT ![c] = "done"]
    /\ UNCHANGED <<history, kind, tailAtInvoke, goodInput, finalResult,
                   gotHistory, diags, nextCall, settledAtInvoke,
                   requestOptions, callOptions>>

\* .then(() => streamPromise)
StreamThen(c) ==
    /\ Running("react") /\ Head(mq).q = <<c, "s1">> /\ kind[c] = "stream"
    /\ LET p == Head(mq).p IN
       IF pst[p] = "fulfilled"
       THEN SetHeap(ResolveWith(Popped, <<c, "s1">>, <<c, "remote">>))
       ELSE SetHeap(Settle(Popped, <<c, "s1">>, "rejected", pval[p]))
    /\ UNCHANGED <<history, sendPromise, kind, pc, tailAtInvoke, goodInput, req,
                   dispatched, finalResult, gotHistory, diags, nextCall,
                   settledAtInvoke,
                   requestOptions, callOptions, sentOptions,
                   attachedAfter>>

\* .catch((_ignored) => { throw new Error(SILENT_ERROR); })
StreamSilence(c) ==
    /\ Running("react") /\ Head(mq).q = <<c, "s2">> /\ kind[c] = "stream"
    /\ LET p == Head(mq).p IN
       IF pst[p] = "fulfilled"
       THEN SetHeap(Settle(Popped, <<c, "s2">>, "fulfilled", pval[p]))
       ELSE SetHeap(Settle(Popped, <<c, "s2">>, "rejected", SILENT_ERROR))
    /\ UNCHANGED <<history, sendPromise, kind, pc, tailAtInvoke, goodInput, req,
                   dispatched, finalResult, gotHistory, diags, nextCall,
                   settledAtInvoke,
                   requestOptions, callOptions, sentOptions,
                   attachedAfter>>

\* .then((streamResult) => streamResult.response)
StreamResponse(c) ==
    /\ Running("react") /\ Head(mq).q = <<c, "s3">> /\ kind[c] = "stream"
    /\ LET p == Head(mq).p IN
       IF pst[p] = "fulfilled"
       THEN SetHeap(ResolveWith(Popped, <<c, "s3">>, <<c, "response">>))
       ELSE SetHeap(Settle(Popped, <<c, "s3">>, "rejected", pval[p]))
    /\ UNCHANGED <<history, sendPromise, kind, pc, tailAtInvoke, goodInput, req,
                   dispatched, finalResult, gotHistory, diags, nextCall,
                   settledAtInvoke,
                   requestOptions, callOptions, sentOptions,
                   attachedAfter>>

\* .then((response) => { admission })
StreamAdmit(c) ==
    /\ Running("react") /\ Head(mq).q = <<c, "s4">> /\ kind[c] = "stream"
    /\ LET p == Head(mq).p IN
       IF pst[p] = "rejected"
       THEN /\ SetHeap(Settle(Popped, <<c, "s4">>, "rejected", pval[p]))
            /\ UNCHANGED <<history, diags>>
       ELSE IF AdmissionThrows(ResponseOf(pval[p]))
       THEN /\ SetHeap(Settle(Popped, <<c, "s4">>, "rejected", <<"admit", c>>))
            /\ UNCHANGED <<history, diags>>
       ELSE /\ history' = Admit(history, c, ResponseOf(pval[p]),
                                  StreamRole(ContentRole(pval[p])))
            /\ diags' = diags \cup BlockWarning(c, ResponseOf(pval[p]))
            /\ SetHeap(Settle(Popped, <<c, "s4">>, "fulfilled", Undefined))
    /\ UNCHANGED <<sendPromise, kind, pc, tailAtInvoke, goodInput, req,
                   dispatched, finalResult, gotHistory, nextCall, settledAtInvoke,
                   requestOptions, callOptions, sentOptions,
                   attachedAfter>>

\* A final catch that logs whatever reaches it.
LogsEveryError(e) == TRUE

\* if (e.message !== SILENT_ERROR) console.error(e)
LogsError(e) == e # SILENT_ERROR

\* .catch((e) => { if (e.message !== SILENT_ERROR) console.error(e); })
StreamCatch(c) ==
    /\ Running("react") /\ Head(mq).q = <<c, "s5">> /\ kind[c] = "stream"
    /\ LET p == Head(mq).p IN
       IF pst[p] = "fulfilled"
       THEN /\ SetHeap(Settle(Popped, <<c, "s5">>, "fulfilled", pval[p]))
            /\ UNCHANGED diags
       ELSE /\ diags' = IF LogsError(pval[p])
                        THEN diags \cup {[level |-> "error", of |-> c, e |-> pval[p]]}
                        ELSE diags
            /\ SetHeap(Settle(Popped, <<c, "s5">>, "fulfilled", Undefined))
    /\ UNCHANGED <<history, sendPromise, kind, pc, tailAtInvoke, goodInput, req,
                   dispatched, finalResult, gotHistory, nextCall, settledAtInvoke,
                   requestOptions, callOptions, sentOptions,
                   attachedAfter>>

\* ------------------------------------------- promise resolution jobs
\* A promise resolved with a promise r: the job calls r.then(...).
ThenableJob ==
    /\ Running("thenable")
    /\ SetHeap(PromiseThen(Popped, Head(mq).p, Job("adopt", Head(mq).q, Head(mq).p)))
    /\ UNCHANGED <<history, sendPromise, kind, pc, tailAtInvoke, goodInput, req,
                   dispatched, finalResult, gotHistory, diags, nextCall,
                   settledAtInvoke,
                   requestOptions, callOptions, sentOptions,
                   attachedAfter>>

\* ... and q takes r's outcome once r has settled.
AdoptJob ==
    /\ Running("adopt")
    /\ SetHeap(Settle(Popped, Head(mq).q, pst[Head(mq).p], pval[Head(mq).p]))
    /\ UNCHANGED <<history, sendPromise, kind, pc, tailAtInvoke, goodInput, req,
                   dispatched, finalResult, gotHistory, diags, nextCall,
                   settledAtInvoke,
                   requestOptions, callOptions, sentOptions,
                   attachedAfter>>

\* ------------------------------------------------- the remote service
\* generateContent's promise settles: a result, or a transport failure.
generateContent(c, out) ==
    /\ kind[c] = "unary" /\ dispatched[c] /\ pst[<<c, "remote">>] = "pending"
    /\ IF out = "transport"
       THEN SetHeap(Settle(Heap, <<c, "remote">>, "rejected", <<"transport", c>>))
       ELSE SetHeap(Settle(Heap, <<c, "remote">>, "fulfilled", <<out, c, NoRole>>))
    /\ UNCHANGED <<history, sendPromise, kind, pc, tailAtInvoke, goodInput, req,
                   dispatched, finalResult, gotHistory, diags, nextCall,
                   settledAtInvoke,
                   requestOptions, callOptions, sentOptions,
                   attachedAfter>>

\* generateContentStream's promise settles: the live result, or a failure.
generateContentStream(c, ok) ==
    /\ kind[c] = "stream" /\ dispatched[c] /\ pst[<<c, "remote">>] = "pending"
    /\ IF ok
       THEN SetHeap(Settle(Heap, <<c, "remote">>, "fulfilled", <<"stream", c>>))
       ELSE SetHeap(Settle(Heap, <<c, "remote">>, "rejected", <<"transport", c>>))
    /\ UNCHANGED <<history, sendPromise, kind, pc, tailAtInvoke, goodInput, req,
                   dispatched, finalResult, gotHistory, diags, nextCall,
                   settledAtInvoke,
                   requestOptions, callOptions, sentOptions,
                   attachedAfter>>

\* The live result's final response settles: a response, or a failure.
streamResponse(c, out) ==
    /\ kind[c] = "stream" /\ pst[<<c, "remote">>] = "fulfilled"
    /\ pst[<<c, "response">>] = "pending"
    /\ IF out = "final"
       THEN SetHeap(Settle(Heap, <<c, "response">>, "rejected", <<"final", c>>))
       ELSE SetHeap(Settle(Heap, <<c, "response">>, "fulfilled", <<out, c, NoRole>>))
    /\ UNCHANGED <<history, sendPromise, kind, pc, tailAtInvoke, goodInput, req,
                   dispatched, finalResult, gotHistory, diags, nextCall,
                   settledAtInvoke,
                   requestOptions, callOptions, sentOptions,
                   attachedAfter>>

\* ------------------------------------------------------------------ Next
\* Every job of the microtask queue that a send leaves there.
SendMicrotask ==
    \/ \E c \in Calls : sendMessageAttach(c)
    \/ \E c \in Calls : sendMessageReturn(c)
    \/ \E c \in Calls : UnaryGenerate(c)
    \/ \E c \in Calls : UnaryAdmit(c)
    \/ \E c \in Calls : UnaryCatch(c)
    \/ \E c \in Calls : sendMessageStreamAttach(c)
    \/ \E c \in Calls : StreamThen(c)
    \/ \E c \in Calls : StreamSilence(c)
    \/ \E c \in Calls : StreamResponse(c)
    \/ \E c \in Calls : StreamAdmit(c)
    \/ \E c \in Calls : StreamCatch(c)
    \/ ThenableJob
    \/ AdoptJob

\* Any of the three operations, with any input, and any outcome of the
\* remote calls; the caller invokes at most MaxOps operations.
Next ==
    \/ \E c \in 1..MaxOps : getHistory(c)
    \/ \E c \in 1..MaxOps, ok \in BOOLEAN : sendMessage(c, ok)
    \/ \E c \in 1..MaxOps, ok \in BOOLEAN : sendMessageStream(c, ok)
    \/ \E c \in Calls : getHistoryResume(c)
    \/ SendMicrotask
    \/ \E c \in Calls, out \in Responses \cup {"transport"} : generateContent(c, out)
    \/ \E c \in Calls, ok \in BOOLEAN : generateContentStream(c, ok)
    \/ \E c \in Calls, out \in Responses \cup {"final"} : streamResponse(c, out)

Spec == Init /\ [][Next]_vars

\* Sends only, with well-formed input, each remote call delivering a valid
\* response or failing in transport; the caller invokes up to MaxCalls sends.
NextSends ==
    \/ \E c \in Calls : sendMessage(c, TRUE)
    \/ \E c \in Calls : sendMessageStream(c, TRUE)
    \/ SendMicrotask
    \/ \E c \in Calls, out \in {"valid", "transport"} : generateContent(c, out)
    \/ \E c \in Calls, ok \in BOOLEAN : generateContentStream(c, ok)
    \/ \E c \in Calls : streamResponse(c, "valid")

SpecSends == Init /\ [][NextSends]_vars

\* ------------------------------------------------------------- roles
\* Number of sends when the responses carry a role (SpecRoles).
MaxRoleCalls == 2

\* The role field a candidate content can have.
ContentRoles == {NoRole, <<"">>, <<"model">>, <<"function">>}

\* generateContent delivers a valid response whose content has this role field.
generateContentWithRole(c, content) ==
    /\ kind[c] = "unary" /\ dispatched[c] /\ pst[<<c, "remote">>] = "pending"
    /\ SetHeap(Settle(Heap, <<c, "remote">>, "fulfilled", <<"valid", c, content>>))
    /\ UNCHANGED <<history, sendPromise, kind, pc, tailAtInvoke, goodInput, req,
                   dispatched, finalResult, gotHistory, diags, nextCall,
                   settledAtInvoke, requestOptions, callOptions, sentOptions,
                   attachedAfter>>

\* The final response of a stream is valid, its content has this role field.
streamResponseWithRole(c, content) ==
    /\ kind[c] = "stream" /\ pst[<<c, "remote">>] = "fulfilled"
    /\ pst[<<c, "response">>] = "pending"
    /\ SetHeap(Settle(Heap, <<c, "response">>, "fulfilled", <<"valid", c, content>>))
    /\ UNCHANGED <<history, sendPromise, kind, pc, tailAtInvoke, goodInput, req,
                   dispatched, finalResult, gotHistory, diags, nextCall,
                   settledAtInvoke, requestOptions, callOptions, sentOptions,
                   attachedAfter>>

\* Sends whose remote calls deliver valid responses with any role field.
NextRoles ==
    \/ \E c \in 1..MaxRoleCalls : sendMessage(c, TRUE)
    \/ \E c \in 1..MaxRoleCalls : sendMessageStream(c, TRUE)
    \/ SendMicrotask
    \/ \E c \in Calls, content \in ContentRoles : generateContentWithRole(c, content)
    \/ \E c \in Calls : generateContentStream(c, TRUE)
    \/ \E c \in Calls, content \in ContentRoles : streamResponseWithRole(c, content)

SpecRoles == Init /\ [][NextRoles]_vars

\* ----------------------------------------------------------- options
\* Number of sends when options are passed (SpecOptions).
MaxOptionCalls == 2

\* The session's default options and a call's options: any choice of fields,
\* each value telling where it was given.
SessionOptions ==
    {[f \in F |-> <<"default", 0>>] : F \in SUBSET {"timeout", "apiVersion"}}
PerCallOptions(c) ==
    {[f \in F |-> <<"call", c>>] : F \in SUBSET {"timeout", "signal"}}

InitOptions == \E defaults \in SessionOptions : InitWith(defaults)

\* sendMessage(request, requestOptions), up to its first await.
sendMessageWithOptions(c, o) ==
    /\ InvokedWith(c, "unary", TRUE, o)
    /\ SetHeap(PromiseThen(Heap, EntryAwait(sendPromise),
                           Job("resume", <<c, "call">>, EntryAwait(sendPromise))))
    /\ UNCHANGED <<history, sendPromise, req, dispatched, finalResult,
                   gotHistory, diags, requestOptions, sentOptions,
                   attachedAfter>>

\* sendMessageStream(request, requestOptions), up to its await.
sendMessageStreamWithOptions(c, o) ==
    /\ InvokedWith(c, "stream", TRUE, o)
    /\ SetHeap(PromiseThen(Heap, EntryAwait(sendPromise),
                           Job("resume", <<c, "call">>, EntryAwait(sendPromise))))
    /\ UNCHANGED <<history, sendPromise, req, dispatched, finalResult,
                   gotHistory, diags, requestOptions, sentOptions,
                   attachedAfter>>

\* Sends with any options, on a session with any default options; every
\* remote call delivers a valid response.
NextOptions ==
    \/ \E c \in 1..MaxOptionCalls :
          \E o \in PerCallOptions(c) : sendMessageWithOptions(c, o)
    \/ \E c \in 1..MaxOptionCalls :
          \E o \in PerCallOptions(c) : sendMessageStreamWithOptions(c, o)
    \/ SendMicrotask
    \/ \E c \in Calls : generateContent(c, "valid")
    \/ \E c \in Calls : generateContentStream(c, TRUE)
    \/ \E c \in Calls : streamResponse(c, "valid")

SpecOptions == InitOptions /\ [][NextOptions]_vars

\* ---------------------------------------------------------- fairness
\* Number of operations the caller invokes under fairness (SpecFair).
MaxFairOps == 2

NextFair ==
    \/ \E c \in 1..MaxFairOps : getHistory(c)
    \/ \E c \in 1..MaxFairOps, ok \in BOOLEAN : sendMessage(c, ok)
    \/ \E c \in 1..MaxFairOps, ok \in BOOLEAN : sendMessageStream(c, ok)
    \/ \E c \in Calls : getHistoryResume(c)
    \/ SendMicrotask
    \/ \E c \in Calls, out \in Responses \cup {"transport"} : generateContent(c, out)
    \/ \E c \in Calls, ok \in BOOLEAN : generateContentStream(c, ok)
    \/ \E c \in Calls, out \in Responses \cup {"final"} : streamResponse(c, out)

\* The runtime drains the microtask queue, and every remote call that was
\* dispatched completes, with a result or with a failure.
Fairness ==
    /\ WF_vars(SendMicrotask \/ \E c \in Calls : getHistoryResume(c))
    /\ \A c \in Calls :
          /\ WF_vars(\E out \in Responses \cup {"transport"} : generateContent(c, out))
          /\ WF_vars(\E ok \in BOOLEAN : generateContentStream(c, ok))
          /\ WF_vars(\E out \in Responses \cup {"final"} : streamResponse(c, out))

SpecFair == Init /\ [][NextFair]_vars /\ Fairness

\* =============================================================== claims
IsSend(c) == kind[c] \in {"unary", "stream"}
Attached(c) == req[c] # <<>>
AdmitSlot(c) == IF kind[c] = "unary" THEN "s2" ELSE "s4"
TailSlot(c) == IF kind[c] = "unary" THEN "s3" ELSE "s5"
ResponseSlot(c) == IF kind[c] = "unary" THEN "remote" ELSE "response"
CallSt(c) == pst[<<c, "call">>]
CallVal(c) == pval[<<c, "call">>]
ErrorOwner(v) == v[2]

\* The send's admission is decided: it was rejected before it built a
\* request, or the admission step of its chain has run or been skipped.
AdmissionDecided(a) ==
    \/ pc[a] = "done" /\ ~Attached(a)
    \/ Attached(a) /\ pst[<<a, AdmitSlot(a)>>] # "pending"

HasExchange(h, a) ==
    \E i \in 1..(Len(h) - 1) : h[i] = UserTurn(a) /\ h[i + 1] = ModelTurn(a)
HasTurn(h, a) == \E i \in 1..Len(h) : h[i][2] = a

\* The response the send's remote call delivered, if any.
GotResponse(c, resps) ==
    /\ pst[<<c, ResponseSlot(c)>>] = "fulfilled"
    /\ ResponseOf(pval[<<c, ResponseSlot(c)>>]) \in resps
ChainDone(c) == Attached(c) /\ pst[<<c, TailSlot(c)>>] # "pending"

\* C1: for sends A invoked before B, B's request is built only once A's
\* admission is decided, and it contains A's exchange when A is admitted.
C1_RequestReflectsEarlierSend ==
    \A a, b \in Calls :
        (a < b /\ IsSend(a) /\ IsSend(b) /\ Attached(b)) =>
            /\ AdmissionDecided(a)
            /\ (HasExchange(history, a) => HasExchange(req[b], a))

\* C2: the exchanges admitted to History appear in invocation order.
C2_AdmissionInInvocationOrder ==
    \A i, j \in 1..Len(history) : i < j => history[i][2] <= history[j][2]

\* C3: History consists of whole exchanges, and a send whose remote call
\* returned a valid response has its exchange in History, exactly once, when
\* its chain step is over; a send with an invalid response has no turn there.
C3_AdmissionAtomicity ==
    /\ Len(history) % 2 = 0
    /\ \A i \in 1..Len(history) :
          history[i] = IF i % 2 = 1 THEN UserTurn(history[i][2])
                                    ELSE ModelTurn(history[i - 1][2])
    /\ \A c \in Calls :
          /\ Cardinality({i \in 1..Len(history) : history[i][2] = c}) \in {0, 2}
          /\ (IsSend(c) /\ ChainDone(c) /\ GotResponse(c, {"valid"}))
                => HasExchange(history, c)
          /\ (IsSend(c) /\ GotResponse(c, Responses \ {"valid"}))
                => ~HasTurn(history, c)

\* The unary send rejected with the failure of its own remote call.
OwnTransportFailure(a) ==
    kind[a] = "unary" /\ CallSt(a) = "rejected" /\ CallVal(a) = <<"transport", a>>

\* C4: a send B invoked after unary send A rejected on its remote call's
\* failure is not rejected with A's error, resolves only with a remote call
\* of its own, and builds its request from a History with no turn of A.
C4_ChainResilience ==
    \A a, b \in Calls :
        (IsSend(b) /\ a \in settledAtInvoke[b] /\ OwnTransportFailure(a)) =>
            /\ (CallSt(b) = "rejected" => ErrorOwner(CallVal(b)) # a)
            /\ (CallSt(b) = "fulfilled" => dispatched[b])
            /\ ~HasTurn(req[b], a)
            /\ ~HasTurn(history, a)

C4_Witness ==
    \E a, b \in Calls :
        /\ IsSend(b) /\ a \in settledAtInvoke[b] /\ OwnTransportFailure(a)
        /\ kind[b] = "unary" /\ dispatched[b] /\ CallSt(b) = "fulfilled"
        /\ HasExchange(history, b)

\* C5: a send B invoked after unary send A and before A settled never
\* rejects with the failure of A's remote call.
C5_FailureIsolation ==
    \A a, b \in Calls :
        (kind[a] = "unary" /\ IsSend(b) /\ a < b /\ a \notin settledAtInvoke[b]) =>
            ~(CallSt(b) = "rejected" /\ CallVal(b) = <<"transport", a>>)

\* C6: when getHistory has resolved, the admission of every send invoked
\* before it is decided, and what it returned holds that send's exchange
\* if the send is admitted.
C6_GetHistoryJoinsChain ==
    \A a, g \in Calls :
        (kind[g] = "get" /\ IsSend(a) /\ a < g /\ CallSt(g) = "fulfilled") =>
            /\ AdmissionDecided(a)
            /\ (HasExchange(history, a) => HasExchange(gotHistory[g], a))

\* The admission step of c's chain runs (or is skipped) in this step.
AdmissionStep(c) ==
    /\ IsSend(c) /\ Attached(c)
    /\ pst[<<c, AdmitSlot(c)>>] = "pending"
    /\ pst'[<<c, AdmitSlot(c)>>] # "pending"

Blocked == {"blocked", "blockedQuiet"}

\* C7: a send that received a blocked response does not reject; its
\* admission step leaves History and the chain tail as they were and emits
\* at most its warning; no turn of the send is in History, its chain step
\* never rejects, and a unary send resolves with that result.
C7_BlockedIsNotAnError ==
    [][/\ \A c \in Calls :
            (AdmissionStep(c) /\ GotResponse(c, Blocked)) =>
                /\ history' = history
                /\ sendPromise' = sendPromise
                /\ diags' \subseteq diags \cup {[level |-> "warn", of |-> c, e |-> Undefined]}
       /\ \A c \in Calls :
            (IsSend(c) /\ GotResponse(c, Blocked))' =>
                /\ ~HasTurn(history', c)
                /\ CallSt(c)' # "rejected"
                /\ pst'[<<c, TailSlot(c)'>>] # "rejected"
                /\ \A d \in diags' : d.of = c => d.level = "warn"
                /\ (kind'[c] = "unary" /\ CallSt(c)' = "fulfilled")
                      => CallVal(c)' = pval'[<<c, "remote">>]
      ]_vars

C7_Witness ==
    \E c, b \in Calls :
        /\ kind[c] = "unary" /\ GotResponse(c, {"blocked"})
        /\ CallSt(c) = "fulfilled" /\ history = <<>>
        /\ [level |-> "warn", of |-> c, e |-> Undefined] \in diags
        /\ IsSend(b) /\ tailAtInvoke[b] = <<c, "s3">> /\ dispatched[b]

\* C8: a streaming send's chain tail never rejects; when its remote call
\* fails no diagnostic is emitted for it and History holds no turn of it;
\* when its admission step fails, exactly that failure is emitted.
C8_SilentErrorSuppression ==
    \A c \in Calls : kind[c] = "stream" =>
        /\ pst[<<c, "s5">>] # "rejected"
        /\ pst[<<c, "remote">>] = "rejected" =>
              /\ \A d \in diags : d.of # c
              /\ ~HasTurn(history, c)
        /\ (pst[<<c, "s4">>] = "rejected" /\ pval[<<c, "s4">>] = <<"admit", c>>) =>
              /\ ~HasTurn(history, c)
              /\ {d \in diags : d.of = c} \subseteq
                    {[level |-> "error", of |-> c, e |-> <<"admit", c>>]}
              /\ pst[<<c, "s5">>] = "fulfilled" =>
                    [level |-> "error", of |-> c, e |-> <<"admit", c>>] \in diags

C8_Witness ==
    \E c, b \in Calls :
        /\ kind[c] = "stream" /\ pst[<<c, "remote">>] = "rejected"
        /\ pst[<<c, "s5">>] = "fulfilled"
        /\ kind[b] = "stream" /\ pval[<<b, "s4">>] = <<"admit", b>>
        /\ pst[<<b, "s5">>] = "fulfilled"
        /\ [level |-> "error", of |-> b, e |-> <<"admit", b>>] \in diags

\* C9 as stated: a streaming send that has not yet dispatched its remote
\* call is not waiting for an unsettled chain tail.
C9_StreamNotDeferred ==
    \A c \in Calls :
        (kind[c] = "stream" /\ pc[c] = "await1") => pst[tailAtInvoke[c]] # "pending"

\* C9 amended: a streaming send dispatches its remote call only once the
\* tail that was current at its invocation has resolved, in the step in which
\* it attaches to the chain; its promise settles as the remote call's does,
\* whatever the state of its own chain step.
C9_StreamDeferredBehindTail ==
    \A c \in Calls : kind[c] = "stream" =>
        /\ dispatched[c] => pst[tailAtInvoke[c]] = "fulfilled"
        /\ dispatched[c] <=> Attached(c)
        /\ (Attached(c) /\ Settled(c)) =>
              /\ CallSt(c) = pst[<<c, "remote">>]
              /\ CallVal(c) = pval[<<c, "remote">>]

C9_Witness ==
    \E a, c \in Calls :
        /\ kind[a] = "unary" /\ kind[c] = "stream"
        /\ tailAtInvoke[c] = <<a, "s3">> /\ a \notin settledAtInvoke[c]
        /\ CallSt(c) = "fulfilled" /\ pst[<<c, "s5">>] = "pending"

\* C10: two getHistory calls with no send invoked between them return
\* equal History contents.
C10_IdempotentRead ==
    \A g, h \in Calls :
        (/\ g < h /\ \A c \in g..h : kind[c] = "get"
         /\ CallSt(g) = "fulfilled" /\ CallSt(h) = "fulfilled") =>
            gotHistory[g] = gotHistory[h]

\* C11: a unary send that resolves returns the result its own remote call
\* delivered, never another send's result and never undefined.
C11_ResolvesWithOwnResult ==
    \A c \in Calls :
        (kind[c] = "unary" /\ CallSt(c) = "fulfilled") =>
            /\ pst[<<c, "remote">>] = "fulfilled"
            /\ CallVal(c) = pval[<<c, "remote">>]
            /\ CallVal(c) # Undefined
            /\ ErrorOwner(CallVal(c)) = c

C11_Witness ==
    \E a, b \in Calls :
        /\ a < b /\ kind[a] = "unary" /\ kind[b] = "unary"
        /\ a \notin settledAtInvoke[b]
        /\ CallSt(a) = "fulfilled" /\ CallSt(b) = "fulfilled"
        /\ ResponseOf(CallVal(a)) # ResponseOf(CallVal(b))

\* The role of the model turn that c's exchange has in History.
Admitted(c) == HasTurn(history, c)
StoredRole(c) ==
    history[CHOOSE i \in 2..Len(history) : history[i - 1] = UserTurn(c)][1]
DeliveredRole(c) == ContentRole(pval[<<c, ResponseSlot(c)>>])

\* C12 as stated: the stored model turn has role "model" when the content
\* has no role field, and the content's role (whatever string it is) otherwise.
C12_RoleDefaulting ==
    \A c \in Calls : (IsSend(c) /\ Admitted(c)) =>
        StoredRole(c) = IF DeliveredRole(c) = NoRole
                        THEN "model" ELSE DeliveredRole(c)[1]

\* C12 amended: no role field gives "model" and a non-empty role is kept, on
\* both paths; an empty role is kept by sendMessage and replaced by "model"
\* by sendMessageStream.
C12_RoleDefaultingNonEmpty ==
    \A c \in Calls : (IsSend(c) /\ Admitted(c)) =>
        StoredRole(c) =
            IF DeliveredRole(c) = NoRole THEN "model"
            ELSE IF DeliveredRole(c)[1] # "" THEN DeliveredRole(c)[1]
            ELSE IF kind[c] = "unary" THEN "" ELSE "model"

C12_Witness ==
    \E a, b \in Calls :
        /\ kind[a] = "unary" /\ kind[b] = "stream"
        /\ Admitted(a) /\ Admitted(b)
        /\ DeliveredRole(a) = <<"function">> /\ StoredRole(a) = "function"
        /\ DeliveredRole(b) = NoRole /\ StoredRole(b) = "model"

\* C13: the options of a send's remote call have a field exactly when the
\* session defaults or the call's options have it, with the call's value when
\* the call gives one and the session's otherwise; the session defaults never
\* change.
C13_OptionsMerge ==
    [][/\ requestOptions' = requestOptions
       /\ \A c \in Calls : Attached(c)' =>
            \A f \in {"timeout", "apiVersion", "signal"} :
                LET inCall == f \in DOMAIN callOptions'[c]
                    inSession == f \in DOMAIN requestOptions'
                    sent == sentOptions'[c]
                IN /\ (inCall /\ inSession) => (f \in DOMAIN sent /\ sent[f] = <<"call", c>>)
                   /\ (inCall /\ ~inSession) => (f \in DOMAIN sent /\ sent[f] = <<"call", c>>)
                   /\ (~inCall /\ inSession) => (f \in DOMAIN sent /\ sent[f] = <<"default", 0>>)
                   /\ (~inCall /\ ~inSession) => f \notin DOMAIN sent
      ]_vars

C13_Witness ==
    \E a, b \in Calls :
        /\ a < b /\ Attached(a) /\ Attached(b) /\ dispatched[a] /\ dispatched[b]
        /\ DOMAIN requestOptions = {"timeout", "apiVersion"}
        /\ DOMAIN callOptions[a] = {"timeout", "signal"}
        /\ sentOptions[a]["timeout"] = <<"call", a>>
        /\ callOptions[b] = NoOptions
        /\ sentOptions[b]["timeout"] = <<"default", 0>>

\* The step in which send c's own failure reaches its caller: a format
\* failure of either operation, or a unary send's remote or admission failure.
FailureDelivered(c) ==
    /\ IsSend(c) /\ CallSt(c) = "pending"
    /\ pst'[<<c, "call">>] = "rejected"
    /\ \/ pval'[<<c, "call">>] = <<"format", c>>
       \/ kind[c] = "unary" /\ pval'[<<c, "call">>] \in {<<"transport", c>>, <<"admit", c>>}

\* C14: when a send's own failure (format, unary remote call, admission) is
\* delivered to its caller, the chain tail is fulfilled, the step leaves
\* History as it was with no turn of the send in it, and a send that failed
\* formatting has dispatched no remote call.
C14_FailureLeavesTailResolved ==
    [][\A c \in Calls : FailureDelivered(c) =>
            /\ pst'[sendPromise'] = "fulfilled"
            /\ history' = history /\ ~HasTurn(history', c)
            /\ (pval'[<<c, "call">>] = <<"format", c>> => ~dispatched'[c] /\ ~Attached(c)')
      ]_vars

\* The part of C14 that holds: the tail is never rejected; it is fulfilled
\* when a failure of the send's chain step (remote call, admission) is
\* delivered, and when a format failure is delivered while every other
\* attached send has finished its chain; History and dispatch are as C14 says.
C14_ChainFailureLeavesTailResolved ==
    [][/\ pst'[sendPromise'] # "rejected"
       /\ \A c \in Calls : FailureDelivered(c) =>
            /\ history' = history /\ ~HasTurn(history', c)
            /\ (pval'[<<c, "call">>] = <<"format", c>> => ~dispatched'[c] /\ ~Attached(c)')
            /\ (\/ pval'[<<c, "call">>] # <<"format", c>>
                \/ \A a \in Calls : ((IsSend(a) /\ Attached(a)) => ChainDone(a)))
               => pst'[sendPromise'] = "fulfilled"
      ]_vars

\* C15: no diagnostic is emitted for a streaming send whose remote call
\* failed at dispatch or whose final response rejected; every error
\* diagnostic reports a failure of an admission step.
C15_ObservableFailureNotLogged ==
    /\ \A c \in Calls :
          (/\ kind[c] = "stream"
           /\ \/ pst[<<c, "remote">>] = "rejected"
              \/ pst[<<c, "response">>] = "rejected") =>
              \A d \in diags : d.of # c
    /\ \A d \in diags : d.level = "error" => d.e[1] = "admit"

\* The sends whose chain steps lie on the chain that ends in promise p.
RECURSIVE ChainOf(_, _)
ChainOf(p, after) ==
    IF p = P0 THEN {} ELSE {p[1]} \cup ChainOf(after[p[1]], after)

\* C16: a send attaches behind the tail current at that step and becomes the
\* tail in the same step, not after its remote call started; in the step that
\* starts a send's remote call the send is attached and on the chain that
\* ends in the tail.
C16_PendingChainInvariant ==
    [][\A c \in Calls :
          /\ (~Attached(c) /\ Attached(c)') =>
                /\ attachedAfter'[c] = sendPromise
                /\ sendPromise' = <<c, TailSlot(c)>>
                /\ ~dispatched[c]
          /\ (~dispatched[c] /\ dispatched'[c]) =>
                /\ Attached(c)'
                /\ c \in ChainOf(sendPromise', attachedAfter')
      ]_vars

\* C17: every step leaves History as it was or appends to it exactly the
\* user turn and the model turn of one send, and the appending step is the
\* admission step of that send on a valid response.
C17_HistoryAppendOnly ==
    [][\/ history' = history
       \/ \E c \in Calls :
            /\ AdmissionStep(c) /\ GotResponse(c, {"valid"})
            /\ Len(history') = Len(history) + 2
            /\ SubSeq(history', 1, Len(history)) = history
            /\ history'[Len(history) + 1] = UserTurn(c)
            /\ history'[Len(history) + 2] = ModelTurn(c)
      ]_vars

C17_Witness ==
    /\ Len(history) = 4
    /\ \E c \in Calls :
          /\ IsSend(c) /\ ChainDone(c) /\ ~HasTurn(history, c)
          /\ GotResponse(c, Blocked)

\* The remote call of unary send c is in flight.
UnaryInFlight(c) ==
    kind[c] = "unary" /\ dispatched[c] /\ pst[<<c, "remote">>] = "pending"

\* C18: while the remote call of a unary send is in flight the chain tail
\* is pending and no other unary send's remote call is in flight.
C18_UnaryInFlightHoldsTail ==
    \A c \in Calls : UnaryInFlight(c) =>
        /\ pst[sendPromise] = "pending"
        /\ \A b \in Calls \ {c} : ~UnaryInFlight(b)

\* The second half of C18 alone: at most one unary remote call is in flight.
\* It fails with four sends (SpecSends).
C18_OneUnaryInFlight ==
    \A c, b \in Calls : (UnaryInFlight(c) /\ UnaryInFlight(b)) => c = b

\* C19: a getHistory call never rejects.
C19_GetHistoryNeverRejects ==
    \A c \in Calls : kind[c] = "get" => CallSt(c) # "rejected"

\* No send is outstanding: every invoked send has settled and the chain
\* steps of every attached send have run.
NoSendOutstanding ==
    \A c \in Calls : IsSend(c) => (Settled(c) /\ (Attached(c) => ChainDone(c)))

\* C20: under fairness every invoked operation eventually settles, the
\* chain tail is fulfilled whenever no send is outstanding, and a tail that
\* is not fulfilled eventually is.
C20_NoWedge ==
    /\ \A c \in Calls : (kind[c] # "none") ~> Settled(c)
    /\ [](NoSendOutstanding => pst[sendPromise] = "fulfilled")
    /\ (pst[sendPromise] # "fulfilled") ~> (pst[sendPromise] = "fulfilled")

C20_Witness ==
    /\ nextCall > MaxFairOps
    /\ \A c \in 1..MaxFairOps : Settled(c)
    /\ NoSendOutstanding
    /\ \E a \in Calls : OwnTransportFailure(a)
    /\ \E b \in Calls : kind[b] \in {"get", "stream"}
    /\ pst[sendPromise] = "fulfilled"

====
